---------------------------- MODULE Spec2Model ----------------------------
(***************************************************************************)
(* A model of the fuel-price pipeline: scraper.py (scrape_fuel_prices and  *)
(* its yearly loop) and main.py (load_fuel_data, forecast_fuel_price,      *)
(* forecast_car_price, calculate_break_even).                              *)
(*                                                                         *)
(* Numbers.  Python floats are modelled as exact rationals <<n, d>> with   *)
(* d > 0 in lowest terms; float('inf') is the pair <<1, 0>>.  Rounding of  *)
(* binary floating point is not modelled.                                  *)
(*                                                                         *)
(* Text.  Cell texts, header titles and date labels are strings.  The      *)
(* conversions float(text), text.strip(), strptime('%d/%m/%Y') and the ISO *)
(* date column of the CSV files are tables over the texts of the model.    *)
(* Dates are day numbers counted from 2020-01-01.                          *)
(***************************************************************************)
EXTENDS Integers, Sequences, FiniteSets, TLC

VARIABLES
    files,              \* fuel_data/<oil_type>/<year>.csv : record-set or NoFile
    s_pc,               \* scraper.py __main__: "run", "called", "crashed", "done"
    year_idx,           \* position of the loop `for year in years`
    page,               \* the response of the last requests.get, or NoPage
    results,            \* the mapping returned by the last scrape_fuel_prices
    raised,             \* the exception that escaped the last call, or "none"
    appended,           \* the dict oil_type_rows of the last call when it ended
    m_pc,               \* main.py __main__: "start", "loaded", "done"
    all_fuel_data,      \* the mapping returned by load_fuel_data
    break_even_results  \* the mapping returned by calculate_break_even

vars == <<files, s_pc, year_idx, page, results, raised, appended, m_pc,
          all_fuel_data, break_even_results>>

scraper_vars == <<s_pc, year_idx, page, results, raised, appended>>

main_vars == <<m_pc, all_fuel_data, break_even_results>>

-----------------------------------------------------------------------------
(* Bounds of the model *)

\* most <tr> rows in the <tbody> of one fetched page
MaxRows == 2

\* most records in one persisted yearly CSV file the main program starts from
MaxRecords == 2

-----------------------------------------------------------------------------
(* Exact rational arithmetic standing for Python float arithmetic *)

Abs(x) == IF x < 0 THEN -x ELSE x

RECURSIVE GCD(_, _)
GCD(a, b) == IF b = 0 THEN a ELSE GCD(b, a % b)

\* the rational n/d (d # 0) in lowest terms with a positive denominator
Norm(n, d) ==
    LET g == GCD(Abs(n), Abs(d))
        s == IF d < 0 THEN -1 ELSE 1
    IN  <<s * (n \div g), s * (d \div g)>>

Rat(i) == <<i, 1>>

\* float('inf')
Inf == <<1, 0>>

IsFinite(x) == x[2] # 0

RAdd(x, y) ==
    LET g == GCD(x[2], y[2])
    IN  Norm(x[1] * (y[2] \div g) + y[1] * (x[2] \div g), (x[2] \div g) * y[2])

RNeg(x) == <<-x[1], x[2]>>

RSub(x, y) == RAdd(x, RNeg(y))

RMul(x, y) ==
    LET g1 == GCD(Abs(x[1]), y[2])
        g2 == GCD(Abs(y[1]), x[2])
        h1 == IF g1 = 0 THEN 1 ELSE g1
        h2 == IF g2 = 0 THEN 1 ELSE g2
    IN  Norm((x[1] \div h1) * (y[1] \div h2), (x[2] \div h2) * (y[2] \div h1))

\* x / y for finite y # 0
RDiv(x, y) == RMul(x, Norm(y[2], y[1]))

\* x < y, where either side may be Inf
RLt(x, y) ==
    IF ~IsFinite(x) THEN FALSE
    ELSE IF ~IsFinite(y) THEN TRUE
    ELSE RSub(x, y)[1] < 0

RLe(x, y) == x = y \/ RLt(x, y)

\* Python's x / y for floats: Inf divided by a positive finite number is Inf
PyDiv(x, y) == IF IsFinite(x) THEN RDiv(x, y) ELSE Inf

-----------------------------------------------------------------------------
(* scraper.py: configuration *)

\* the keys of oil_type_index, in the order of the dict literal
OilTypes == <<"gasohol_95", "gasohol_91", "diesel", "gasohol_e85", "gasohol_e20">>

oil_type_index ==
    [ gasohol_95  |-> "Gasohol 95 S EVO",
      gasohol_91  |-> "Gasohol 91 S EVO",
      diesel      |-> "Hi Diesel S",
      gasohol_e85 |-> "Gasohol E85 S EVO",
      gasohol_e20 |-> "Gasohol E20 S EVO" ]

\* the years of scraper.py's loop that the model runs (the first two of the
\* years that load_fuel_data reads)
ScrapeYears == <<2020, 2021>>

NoTitle == "no_title"   \* a <th> without a title attribute
NoTh == "no_th"         \* a body row without a <th>

-----------------------------------------------------------------------------
(* Text conversions *)

\* str.strip()
Strip(t) ==
    CASE t = " 30.00 " -> "30.00"
      [] t = " "       -> ""
      [] t = " Hi Diesel S " -> "Hi Diesel S"
      [] OTHER         -> t

\* the texts float() accepts
Numeric == {"30.00", "31.50", "6.30", "0", "-5.00"}

\* float(text) for a text in Numeric
Float(t) ==
    CASE t = "30.00" -> Rat(30)
      [] t = "31.50" -> Norm(63, 2)
      [] t = "6.30"  -> Norm(63, 10)
      [] t = "0"     -> Rat(0)
      [] t = "-5.00" -> Rat(-5)

\* the date labels strptime accepts with the format '%d/%m/%Y'
DayMonthYear == {"30/12/2020", "31/12/2020", "01/01/2021"}

\* the day number of a date label in DayMonthYear
Strptime(t) ==
    CASE t = "30/12/2020" -> 364
      [] t = "31/12/2020" -> 365
      [] t = "01/01/2021" -> 366

\* the date column as DataFrame.to_csv writes it
IsoFormat(day) ==
    CASE day = 364 -> "2020-12-30"
      [] day = 365 -> "2020-12-31"
      [] day = 366 -> "2021-01-01"

\* pd.to_datetime of the date column of a CSV file
ParseIso(t) ==
    CASE t = "2020-12-30" -> 364
      [] t = "2020-12-31" -> 365
      [] t = "2021-01-01" -> 366

-----------------------------------------------------------------------------
(* Helpers on sequences *)

RECURSIVE InsertByDate(_, _)
\* r put into the date-sorted sequence s, after the records of the same date
InsertByDate(s, r) ==
    IF s = <<>> THEN <<r>>
    ELSE IF r.date < Head(s).date THEN <<r>> \o s
    ELSE <<Head(s)>> \o InsertByDate(Tail(s), r)

RECURSIVE SortByDate(_)
\* df.sort_values('date').reset_index(drop=True); the records of one date keep
\* their order (numpy sorts the short arrays of the model by insertion)
SortByDate(s) ==
    IF s = <<>> THEN <<>>
    ELSE InsertByDate(SortByDate(SubSeq(s, 1, Len(s) - 1)), s[Len(s)])

RECURSIVE Concat(_)
\* pd.concat(list_of_frames, ignore_index=True)
Concat(ss) == IF ss = <<>> THEN <<>> ELSE Head(ss) \o Concat(Tail(ss))

SeqRange(s) == {s[i] : i \in 1..Len(s)}

RECURSIVE BoundedSeq(_, _)
\* the sequences over S of length at most n
BoundedSeq(S, n) ==
    IF n = 0 THEN {<<>>}
    ELSE LET shorter == BoundedSeq(S, n - 1)
         IN  shorter \cup {Append(s, x) : s \in {t \in shorter : Len(t) = n - 1}, x \in S}

-----------------------------------------------------------------------------
(* scraper.py: scrape_fuel_prices *)

\* the list `headers`: the date header, then the title of every <th> of the
\* second header row that has one
Headers(p) ==
    LET titled == SelectSeq(p.titles, LAMBDA t : t # NoTitle)
    IN  <<Strip(p.date_header)>> \o [i \in 1..Len(titled) |-> Strip(titled[i])]

\* headers.index(name), counted from 0; -1 stands for the ValueError
HeaderIndex(headers, name) ==
    IF \E i \in 1..Len(headers) : headers[i] = name
    THEN (CHOOSE i \in 1..Len(headers) :
            /\ headers[i] = name
            /\ \A j \in 1..(i - 1) : headers[j] # name) - 1
    ELSE -1

\* whether the loop over oil_types resolves oil_type (it `continue`s otherwise)
Resolved(headers, oil_type) ==
    /\ oil_type \in DOMAIN oil_type_index
    /\ HeaderIndex(headers, oil_type_index[oil_type]) >= 0

RECURSIVE ResolvedPrefix(_, _)
ResolvedPrefix(oil_types, headers) ==
    IF oil_types = <<>> \/ ~Resolved(headers, Head(oil_types)) THEN <<>>
    ELSE <<Head(oil_types)>> \o ResolvedPrefix(Tail(oil_types), headers)

\* a variant of ResolvedTypes: the loop ends (`break`) at the first fuel type
\* whose label is not found, instead of going on (`continue`)
ResolvedTypes_break(oil_types, headers) == ResolvedPrefix(oil_types, headers)

\* the dict oil_type_indices as the sequence of its keys, in insertion order
ResolvedTypes(oil_types, headers) ==
    SelectSeq(oil_types, LAMBDA t : Resolved(headers, t))

price_index_of(headers, oil_type) == HeaderIndex(headers, oil_type_index[oil_type])

\* the guard `len(cols) > price_index - 1`
HasCell(cols, price_index) == Len(cols) > price_index - 1

\* cols[price_index - 1] raises IndexError: index -1 into an empty list
CellRaises(cols, price_index) ==
    HasCell(cols, price_index) /\ price_index - 1 < 0 /\ Len(cols) < 1 - price_index

\* cols[price_index - 1], with Python's negative index counted from the end
Cell(cols, price_index) ==
    IF price_index - 1 >= 0 THEN cols[price_index] ELSE cols[Len(cols) + price_index]

\* a row whose every cell must be a number before any point is appended
RowHasPoint_whole_row(row, price_index) ==
    /\ row.th # NoTh
    /\ HasCell(row.tds, price_index)
    /\ ~CellRaises(row.tds, price_index)
    /\ \A c \in 1..Len(row.tds) : Strip(row.tds[c]) \in Numeric

\* whether the row appends a point for the column price_index
RowHasPoint(row, price_index) ==
    /\ row.th # NoTh
    /\ HasCell(row.tds, price_index)
    /\ ~CellRaises(row.tds, price_index)
    /\ LET price == Strip(Cell(row.tds, price_index))
       IN  price # "" /\ price # "-" /\ price \in Numeric

\* the dict appended for the row: {'date': date, 'price': float(price)}
RowPoint(row, price_index) ==
    [date |-> Strip(row.th), price |-> Float(Strip(Cell(row.tds, price_index)))]

\* oil_type_rows[oil_type] after the loop over the body rows
oil_type_rows(p, price_index) ==
    LET kept == SelectSeq(p.rows, LAMBDA row : RowHasPoint(row, price_index))
    IN  [i \in 1..Len(kept) |-> RowPoint(kept[i], price_index)]

\* an IndexError escapes the loop over the body rows
RowLoopRaises(p, headers, types) ==
    \E i \in 1..Len(p.rows), k \in 1..Len(types) :
        /\ p.rows[i].th # NoTh
        /\ CellRaises(p.rows[i].tds, price_index_of(headers, types[k]))

\* pd.to_datetime(df['date'], format='%d/%m/%Y') raises ValueError
ToDatetimeRaises(rows) == \E i \in 1..Len(rows) : rows[i].date \notin DayMonthYear

\* the DataFrame built from the rows: dates parsed, sorted by date
DataFrame(rows) ==
    SortByDate([i \in 1..Len(rows) |->
                  [date |-> Strptime(rows[i].date), price |-> rows[i].price]])

\* df.to_csv(..., index=False): the ISO date and the price of every row
ToCsv(df) ==
    [exists |-> TRUE,
     rows |-> [i \in 1..Len(df) |-> [date |-> IsoFormat(df[i].date), price |-> df[i].price]]]

Returned(res, fs) == [results |-> res, raised |-> "none", files |-> fs]

Escaped(exc, fs) == [results |-> <<>>, raised |-> exc, files |-> fs]

RECURSIVE SaveFrames(_, _, _, _, _, _)
\* the loop `for oil_type, rows in oil_type_rows.items()` from its k-th
\* iteration on, with the results and the files built so far
SaveFrames(k, types, p, year, res, fs) ==
    IF k > Len(types) THEN Returned(res, fs)
    ELSE LET oil_type == types[k]
             rows == oil_type_rows(p, price_index_of(Headers(p), oil_type))
         IN  IF rows = <<>>
             THEN SaveFrames(k + 1, types, p, year, res @@ (oil_type :> <<>>), fs)
             ELSE IF ToDatetimeRaises(rows)
             THEN Escaped("ValueError", fs)
             ELSE LET df == DataFrame(rows)
                  IN  SaveFrames(k + 1, types, p, year,
                                 res @@ (oil_type :> df),
                                 [fs EXCEPT ![oil_type][year] = ToCsv(df)])

\* scrape_fuel_prices without the try around requests.get: the transport
\* error escapes the call
scrape_fuel_prices_unguarded(year, oil_types, p, fs) ==
    LET headers == Headers(p)
        types == ResolvedTypes(oil_types, headers)
    IN  IF p.kind = "transport_error" THEN Escaped("RequestException", fs)
        ELSE IF p.kind \in {"no_table", "no_thead", "short_thead", "no_date_header"}
        THEN Returned(<<>>, fs)
        ELSE IF types = <<>> THEN Returned(<<>>, fs)
        ELSE IF p.kind = "no_tbody" THEN Returned(<<>>, fs)
        ELSE IF RowLoopRaises(p, headers, types) THEN Escaped("IndexError", fs)
        ELSE SaveFrames(1, types, p, year, <<>>, fs)

\* scrape_fuel_prices(year, oil_types) on the response p with the files fs:
\* what it returns, the exception that escapes it, and the files afterwards
scrape_fuel_prices(year, oil_types, p, fs) ==
    LET headers == Headers(p)
        types == ResolvedTypes(oil_types, headers)
    IN  IF p.kind \in {"transport_error", "no_table", "no_thead", "short_thead",
                       "no_date_header"}
        THEN Returned(<<>>, fs)
        ELSE IF types = <<>> THEN Returned(<<>>, fs)
        ELSE IF p.kind = "no_tbody" THEN Returned(<<>>, fs)
        ELSE IF RowLoopRaises(p, headers, types) THEN Escaped("IndexError", fs)
        ELSE SaveFrames(1, types, p, year, <<>>, fs)

\* the index of the first body row at which cols[price_index - 1] raises,
\* or the number of rows + 1
FirstRaisingRow(p, headers, types) ==
    IF RowLoopRaises(p, headers, types)
    THEN CHOOSE i \in 1..Len(p.rows) :
            /\ RowLoopRaises([p EXCEPT !.rows = SubSeq(p.rows, 1, i)], headers, types)
            /\ ~RowLoopRaises([p EXCEPT !.rows = SubSeq(p.rows, 1, i - 1)], headers, types)
    ELSE Len(p.rows) + 1

\* the dict oil_type_rows when scrape_fuel_prices ends: not yet created when
\* the call returns before line 107, empty lists without a <tbody>, and
\* otherwise what the loop over the body rows appended, up to the cell at
\* which an IndexError escaped
oil_type_rows_at_end(oil_types, p) ==
    LET headers == Headers(p)
        types == ResolvedTypes(oil_types, headers)
        r == FirstRaisingRow(p, headers, types)
        before == [p EXCEPT !.rows = SubSeq(p.rows, 1, r - 1)]
        raising(k) == CellRaises(p.rows[r].tds, price_index_of(headers, types[k]))
        last(k) ==
            IF /\ r <= Len(p.rows)
               /\ \A j \in 1..k : ~raising(j)
               /\ RowHasPoint(p.rows[r], price_index_of(headers, types[k]))
            THEN <<RowPoint(p.rows[r], price_index_of(headers, types[k]))>>
            ELSE <<>>
    IN  IF p.kind \in {"transport_error", "no_table", "no_thead", "short_thead",
                       "no_date_header"}
        THEN <<>>
        ELSE IF types = <<>> THEN <<>>
        ELSE IF p.kind = "no_tbody" THEN [t \in SeqRange(types) |-> <<>>]
        ELSE [t \in SeqRange(types) |->
                LET k == CHOOSE j \in 1..Len(types) : types[j] = t
                IN  oil_type_rows(before, price_index_of(headers, t)) \o last(k)]

-----------------------------------------------------------------------------
(* The responses the website may give *)

\* the <tr> rows a <tbody> may hold: th is the text of the row's <th>, tds
\* the texts of its <td> cells
BodyRows ==
    { [th |-> "30/12/2020", tds |-> <<" 30.00 ", "31.50">>],
      [th |-> "31/12/2020", tds |-> <<"0", "-5.00">>],
      [th |-> "31/12/2020", tds |-> <<"-", "6.30">>],
      [th |-> "30/12/2020", tds |-> <<"n/a", "">>],
      [th |-> "01/01/2021", tds |-> <<"31.50">>],
      [th |-> "2020-12-31", tds |-> <<"30.00", "-">>],
      [th |-> "2020-12-31", tds |-> <<"-", " ">>],
      [th |-> NoTh,         tds |-> <<"30.00", "30.00">>] }

\* the title attributes of the <th> cells of the second header row
HeaderLayouts ==
    { <<"Gasohol 95 S EVO", "Hi Diesel S">>,
      <<" Hi Diesel S ">>,
      <<NoTitle, "Gasohol 95 S EVO">> }

\* a page with the price table
TablePages ==
    { [kind |-> "ok", date_header |-> "Date", titles |-> h, rows |-> r] :
        h \in HeaderLayouts, r \in BoundedSeq(BodyRows, MaxRows) }

\* a failed request, or a page that lacks a part of the table
BrokenPages ==
    { [kind |-> k, date_header |-> "Date", titles |-> <<"Gasohol 95 S EVO">>,
       rows |-> <<>>] :
        k \in {"transport_error", "no_table", "no_thead", "short_thead",
               "no_date_header", "no_tbody"} }

\* a page whose table names none of the labels of oil_type_index
UnmatchedPages ==
    { [kind |-> "ok", date_header |-> "Date", titles |-> <<"Gasohol 95">>,
       rows |-> <<[th |-> "30/12/2020", tds |-> <<" 30.00 ", "31.50">>]>>] }

Pages == TablePages \cup BrokenPages \cup UnmatchedPages

NoPage == [kind |-> "none", date_header |-> "", titles |-> <<>>, rows |-> <<>>]

-----------------------------------------------------------------------------
(* The files under fuel_data/ *)

OilTypeSet == SeqRange(OilTypes)

\* the years load_fuel_data reads: range(2020, 2025)
LoadYears == 2020..2024

NoFile == [exists |-> FALSE, rows |-> <<>>]

NoFiles == [t \in OilTypeSet |-> [y \in LoadYears |-> NoFile]]

-----------------------------------------------------------------------------
(* scraper.py: the loop of __main__ *)

\* results = scrape_fuel_prices(year, oil_types_to_scrape), where None asks
\* for every key of oil_type_index; an exception that escapes the call ends
\* the program
ScrapeYear ==
    /\ s_pc = "run"
    /\ year_idx <= Len(ScrapeYears)
    /\ \E p \in Pages :
        LET out == scrape_fuel_prices(ScrapeYears[year_idx], OilTypes, p, files)
        IN  /\ page' = p
            /\ files' = out.files
            /\ raised' = out.raised
            /\ results' = IF out.raised = "none" THEN out.results ELSE results
            /\ appended' = oil_type_rows_at_end(OilTypes, p)
            /\ s_pc' = IF out.raised = "none" THEN "called" ELSE "crashed"
    /\ UNCHANGED year_idx
    /\ UNCHANGED main_vars

\* print(f"Completed scraping for {year}. ...") and the step to the next year;
\* the response was local to the call
CompleteYear ==
    /\ s_pc = "called"
    /\ s_pc' = "run"
    /\ year_idx' = year_idx + 1
    /\ page' = NoPage
    /\ appended' = <<>>
    /\ UNCHANGED <<files, results, raised>>
    /\ UNCHANGED main_vars

\* the loop is over and the program ends
ScraperExit ==
    /\ s_pc = "run"
    /\ year_idx > Len(ScrapeYears)
    /\ s_pc' = "done"
    /\ UNCHANGED <<files, year_idx, page, results, raised, appended>>
    /\ UNCHANGED main_vars

ScraperInit ==
    /\ files = NoFiles
    /\ s_pc = "run"
    /\ year_idx = 1
    /\ page = NoPage
    /\ results = <<>>
    /\ raised = "none"
    /\ appended = <<>>
    /\ m_pc = "idle"
    /\ all_fuel_data = <<>>
    /\ break_even_results = <<>>

ScraperNext == ScrapeYear \/ CompleteYear \/ ScraperExit

SpecScraper == ScraperInit /\ [][ScraperNext]_vars

-----------------------------------------------------------------------------
(* main.py: load_fuel_data *)

\* the list fuel_types of load_fuel_data
fuel_types == <<"diesel", "gasohol_91", "gasohol_95", "gasohol_e20", "gasohol_e85">>

\* the list fuel_type_data: the frames read from the files that exist, by year
fuel_type_data(fs, fuel_type) ==
    LET years == SelectSeq([i \in 1..5 |-> 2019 + i],
                           LAMBDA y : fs[fuel_type][y].exists)
    IN  [i \in 1..Len(years) |-> fs[fuel_type][years[i]].rows]

\* fuel_df['date'].min() of a frame with at least one row
MinDate(df) == CHOOSE d \in {df[i].date : i \in 1..Len(df)} :
                   \A i \in 1..Len(df) : d <= df[i].date

\* the frame stored for one fuel type: concatenated, dates parsed, sorted by
\* date, with the column time = days since the earliest date
fuel_df(frames) ==
    LET all == Concat(frames)
        parsed == [i \in 1..Len(all) |->
                      [date |-> ParseIso(all[i].date), price |-> all[i].price]]
        sorted == SortByDate(parsed)
    IN  [i \in 1..Len(sorted) |->
            [date |-> sorted[i].date,
             price |-> sorted[i].price,
             time |-> sorted[i].date - MinDate(sorted)]]

\* load_fuel_data(): a frame for every fuel type that has at least one file
load_fuel_data(fs) ==
    LET loaded == {t \in SeqRange(fuel_types) : fuel_type_data(fs, t) # <<>>}
    IN  [t \in loaded |-> fuel_df(fuel_type_data(fs, t))]

-----------------------------------------------------------------------------
(* main.py: forecast_fuel_price *)

\* the default price 32.55
DefaultPrice == Norm(3255, 100)

RECURSIVE RSum(_)
RSum(xs) == IF xs = <<>> THEN Rat(0) ELSE RAdd(Head(xs), RSum(Tail(xs)))

\* Series.mean() of a non-empty column
Mean(xs) == RDiv(RSum(xs), Rat(Len(xs)))

Prices(df) == [i \in 1..Len(df) |-> df[i].price]

Times(df) == [i \in 1..Len(df) |-> Rat(df[i].time)]

\* df['time'].max()
MaxTime(df) == CHOOSE t \in {df[i].time : i \in 1..Len(df)} :
                   \A i \in 1..Len(df) : df[i].time <= t

\* LinearRegression().fit(X, y): the least-squares line through the centred
\* data; when every time is the same the minimum-norm solution has slope 0
LinearRegression(df) ==
    LET x == Times(df)
        y == Prices(df)
        xm == Mean(x)
        ym == Mean(y)
        sxx == RSum([i \in 1..Len(df) |->
                        RMul(RSub(x[i], xm), RSub(x[i], xm))])
        sxy == RSum([i \in 1..Len(df) |->
                        RMul(RSub(x[i], xm), RSub(y[i], ym))])
        coef == IF sxx = Rat(0) THEN Rat(0) ELSE RDiv(sxy, sxx)
    IN  [coef |-> coef, intercept |-> RSub(ym, RMul(coef, xm))]

\* model.predict([[t]])[0]
Predict(model, t) == RAdd(model.intercept, RMul(model.coef, Rat(t)))

\* a variant of forecast_fuel_price: an empty frame yields 0.0, not the default
forecast_fuel_price_zero(data, fuel_type) ==
    IF DOMAIN data = {} \/ fuel_type \notin DOMAIN data THEN DefaultPrice
    ELSE LET df == data[fuel_type]
         IN  IF Len(df) = 0 \/ Len(df) < 2
             THEN IF Len(df) # 0 THEN Mean(Prices(df)) ELSE Rat(0)
             ELSE Predict(LinearRegression(df), MaxTime(df) + 365)

\* a variant of forecast_fuel_price: a frame of fewer than two rows yields the
\* default price
forecast_fuel_price_short(data, fuel_type) ==
    IF DOMAIN data = {} \/ fuel_type \notin DOMAIN data THEN DefaultPrice
    ELSE LET df == data[fuel_type]
         IN  IF Len(df) = 0 \/ Len(df) < 2
             THEN DefaultPrice
             ELSE Predict(LinearRegression(df), MaxTime(df) + 365)

\* forecast_fuel_price(all_fuel_data, fuel_type)
forecast_fuel_price(data, fuel_type) ==
    IF DOMAIN data = {} \/ fuel_type \notin DOMAIN data THEN DefaultPrice
    ELSE LET df == data[fuel_type]
         IN  IF Len(df) = 0 \/ Len(df) < 2
             THEN IF Len(df) # 0 THEN Mean(Prices(df)) ELSE DefaultPrice
             ELSE Predict(LinearRegression(df), MaxTime(df) + 365)

-----------------------------------------------------------------------------
(* main.py: forecast_car_price and calculate_break_even *)

RECURSIVE RPow(_, _)
RPow(x, n) == IF n = 0 THEN Rat(1) ELSE RMul(x, RPow(x, n - 1))

\* the default depreciation_rate 0.05
depreciation_rate == Norm(5, 100)

\* a variant of forecast_car_price: the price is not depreciated
forecast_car_price_flat(current_price) == Rat(current_price)

\* forecast_car_price(current_price) with years=1
forecast_car_price(current_price) ==
    RMul(Rat(current_price), RPow(RSub(Rat(1), depreciation_rate), 1))

gasoline_car_price == 990000
hybrid_car_price == 1290000
ev_car_price == 1590000
electricity_price_per_kwh == Norm(430, 100)
gasoline_car_kpl == 12
hybrid_car_kpl == 25
ev_car_kwh_per_km == Norm(15, 100)
gasoline_car_maintenance_annual == 10000
hybrid_car_maintenance_annual == 10000
ev_car_maintenance_annual == 4000
km_per_year == 50000
years_to_own == 5

\* a variant of break_even_years: the guard only excludes the division by zero
break_even_years_nonzero(price_difference, total_annual_savings) ==
    IF total_annual_savings # Rat(0)
    THEN RDiv(price_difference, total_annual_savings)
    ELSE Inf

\* price_difference / total_annual_savings if total_annual_savings > 0
\* else float('inf')
break_even_years(price_difference, total_annual_savings) ==
    IF RLt(Rat(0), total_annual_savings)
    THEN RDiv(price_difference, total_annual_savings)
    ELSE Inf

\* a variant of required_annual_km: the maintenance savings are left out
required_annual_km_fuel_only(required_annual_savings, annual_maintenance_savings, savings_per_km) ==
    IF RLt(Rat(0), savings_per_km)
    THEN RDiv(required_annual_savings, savings_per_km)
    ELSE Inf

\* (required_annual_savings - annual_maintenance_savings) / savings_per_km
\* if savings_per_km > 0 else float('inf')
required_annual_km(required_annual_savings, annual_maintenance_savings, savings_per_km) ==
    IF RLt(Rat(0), savings_per_km)
    THEN RDiv(RSub(required_annual_savings, annual_maintenance_savings), savings_per_km)
    ELSE Inf

\* a variant of annual_savings: the maintenance savings are left out
annual_savings_fuel_only(savings_per_km, annual_km, annual_maintenance_savings) ==
    RMul(savings_per_km, annual_km)

\* the total annual savings at an annual driving distance:
\* savings_per_km * km_per_year + annual_maintenance_savings
annual_savings(savings_per_km, annual_km, annual_maintenance_savings) ==
    RAdd(RMul(savings_per_km, annual_km), annual_maintenance_savings)

\* calculate_break_even(all_fuel_data)
calculate_break_even(data) ==
    LET forecasted_gasoline_price == forecast_fuel_price(data, "gasohol_95")
        gasoline_car_price_future == forecast_car_price(gasoline_car_price)
        hybrid_car_price_future == forecast_car_price(hybrid_car_price)
        ev_car_price_future == forecast_car_price(ev_car_price)
        hybrid_price_difference == RSub(hybrid_car_price_future, gasoline_car_price_future)
        ev_price_difference == RSub(ev_car_price_future, gasoline_car_price_future)
        gasoline_cost_per_km_fuel == RDiv(forecasted_gasoline_price, Rat(gasoline_car_kpl))
        hybrid_cost_per_km_fuel == RDiv(forecasted_gasoline_price, Rat(hybrid_car_kpl))
        ev_cost_per_km_energy == RMul(electricity_price_per_kwh, ev_car_kwh_per_km)
        hybrid_savings_per_km == RSub(gasoline_cost_per_km_fuel, hybrid_cost_per_km_fuel)
        ev_savings_per_km == RSub(gasoline_cost_per_km_fuel, ev_cost_per_km_energy)
        hybrid_annual_maintenance_savings ==
            Rat(gasoline_car_maintenance_annual - hybrid_car_maintenance_annual)
        ev_annual_maintenance_savings ==
            Rat(gasoline_car_maintenance_annual - ev_car_maintenance_annual)
        hybrid_total_annual_savings ==
            annual_savings(hybrid_savings_per_km, Rat(km_per_year),
                           hybrid_annual_maintenance_savings)
        hybrid_break_even_years ==
            break_even_years(hybrid_price_difference, hybrid_total_annual_savings)
        ev_total_annual_savings ==
            annual_savings(ev_savings_per_km, Rat(km_per_year),
                           ev_annual_maintenance_savings)
        ev_break_even_years ==
            break_even_years(ev_price_difference, ev_total_annual_savings)
        hybrid_required_annual_savings == RDiv(hybrid_price_difference, Rat(years_to_own))
        ev_required_annual_savings == RDiv(ev_price_difference, Rat(years_to_own))
        hybrid_required_annual_km ==
            required_annual_km(hybrid_required_annual_savings,
                               hybrid_annual_maintenance_savings, hybrid_savings_per_km)
        ev_required_annual_km ==
            required_annual_km(ev_required_annual_savings,
                               ev_annual_maintenance_savings, ev_savings_per_km)
    IN  [ forecasts |->
            [ fuel_prices |-> [t \in DOMAIN data |-> forecast_fuel_price(data, t)],
              gasoline_car_price |-> gasoline_car_price_future,
              hybrid_car_price |-> hybrid_car_price_future,
              ev_car_price |-> ev_car_price_future,
              gasoline_fuel_price |-> forecasted_gasoline_price ],
          costs |->
            [ hybrid_price_difference |-> hybrid_price_difference,
              ev_price_difference |-> ev_price_difference,
              gasoline_cost_per_km |-> gasoline_cost_per_km_fuel,
              hybrid_cost_per_km |-> hybrid_cost_per_km_fuel,
              ev_cost_per_km |-> ev_cost_per_km_energy,
              hybrid_savings_per_km |-> hybrid_savings_per_km,
              ev_savings_per_km |-> ev_savings_per_km ],
          break_even |->
            [ hybrid_years |-> hybrid_break_even_years,
              ev_years |-> ev_break_even_years,
              hybrid_annual_savings |-> hybrid_total_annual_savings,
              ev_annual_savings |-> ev_total_annual_savings,
              hybrid_monthly_km_needed |-> PyDiv(hybrid_required_annual_km, Rat(12)),
              ev_monthly_km_needed |-> PyDiv(ev_required_annual_km, Rat(12)),
              years_to_own |-> years_to_own ],
          assumptions |->
            [ km_per_year |-> km_per_year,
              gasoline_car_kpl |-> gasoline_car_kpl,
              hybrid_car_kpl |-> hybrid_car_kpl,
              ev_kwh_per_km |-> ev_car_kwh_per_km,
              electricity_price_per_kwh |-> electricity_price_per_kwh ] ]

-----------------------------------------------------------------------------
(* The files main.py may find *)

\* a file as the scraper writes it: records sorted by date; the empty
\* sequence is a file holding only the header line date,price
RecordSets(dates, prices) ==
    { [exists |-> TRUE, rows |-> r] :
        r \in { q \in BoundedSeq([date : dates, price : prices], MaxRecords) :
                  \A i \in 1..(Len(q) - 1) : ParseIso(q[i].date) <= ParseIso(q[i + 1].date) } }

\* the diesel file of the model
DieselFile ==
    [exists |-> TRUE, rows |-> << [date |-> "2020-12-30", price |-> Rat(30)] >>]

\* the directories fuel_data/ the main program may start from
InitFiles ==
    { [NoFiles EXCEPT !["gasohol_95"][2020] = a,
                      !["gasohol_95"][2021] = b,
                      !["diesel"][2020] = c] :
        a \in RecordSets({"2020-12-30", "2020-12-31"},
                         {Rat(0), Norm(630, 100), Rat(30)}) \cup {NoFile},
        b \in RecordSets({"2020-12-31", "2021-01-01"},
                         {Rat(30), Rat(60)}) \cup {NoFile},
        c \in {DieselFile, NoFile} }

-----------------------------------------------------------------------------
(* main.py: __main__ *)

\* all_fuel_data = load_fuel_data()
LoadFuelData ==
    /\ m_pc = "start"
    /\ all_fuel_data' = load_fuel_data(files)
    /\ m_pc' = "loaded"
    /\ UNCHANGED <<files, break_even_results>>
    /\ UNCHANGED scraper_vars

\* break_even_results = calculate_break_even(all_fuel_data)
CalculateBreakEven ==
    /\ m_pc = "loaded"
    /\ break_even_results' = calculate_break_even(all_fuel_data)
    /\ m_pc' = "done"
    /\ UNCHANGED <<files, all_fuel_data>>
    /\ UNCHANGED scraper_vars

MainInit ==
    /\ files \in InitFiles
    /\ s_pc = "idle"
    /\ year_idx = 1
    /\ page = NoPage
    /\ results = <<>>
    /\ raised = "none"
    /\ appended = <<>>
    /\ m_pc = "start"
    /\ all_fuel_data = <<>>
    /\ break_even_results = <<>>

MainNext == LoadFuelData \/ CalculateBreakEven

SpecMain == MainInit /\ [][MainNext]_vars

-----------------------------------------------------------------------------
(* Claims about the scraper, checked under SpecScraper *)

\* the year of the call that has just returned or crashed
CallYear == ScrapeYears[year_idx]

AfterCall == s_pc \in {"called", "crashed"}

\* the body rows of the page whose date label strptime rejects
BadDateRow(row) == row.th # NoTh /\ Strip(row.th) \notin DayMonthYear

WithoutBadDateRows(p) ==
    [p EXCEPT !.rows = SelectSeq(p.rows, LAMBDA row : ~BadDateRow(row))]

\* the list oil_types without one of its entries
Without(oil_types, t) == SelectSeq(oil_types, LAMBDA u : u # t)

\* a requested fuel type whose label the resolved header list lacks
LabelMissing(p, t) ==
    /\ p.kind \in {"ok", "no_tbody"}
    /\ HeaderIndex(Headers(p), oil_type_index[t]) < 0

\* C2: when the header list lacks the label of a requested fuel type, that
\* type is absent from the returned mapping, and every other requested type
\* whose label is present is extracted - its returned frame and its file of
\* the year are exactly those of the same call made without the missing type.
C2_MissingLabelDropsOnlyThatType ==
    AfterCall =>
        \A t \in OilTypeSet :
            LabelMissing(page, t) =>
                LET other == scrape_fuel_prices(CallYear, Without(OilTypes, t),
                                                page, NoFiles)
                IN  /\ other.raised = raised
                    /\ raised = "none" =>
                        /\ t \notin DOMAIN results
                        /\ DOMAIN other.results = DOMAIN results
                        /\ \A u \in OilTypeSet \ {t} :
                            Resolved(Headers(page), u) =>
                                /\ page.kind = "ok" => u \in DOMAIN results
                                /\ u \in DOMAIN results =>
                                    /\ results[u] = other.results[u]
                                    /\ files[u][CallYear] = other.files[u][CallYear]

\* a call on a page without the gasohol 95 label that returned diesel points
C2_Witness ==
    /\ s_pc = "called"
    /\ page.kind = "ok"
    /\ LabelMissing(page, "gasohol_95")
    /\ "gasohol_95" \notin DOMAIN results
    /\ "diesel" \in DOMAIN results
    /\ results["diesel"] # <<>>
    /\ files["diesel"][CallYear].exists

\* C3: a body row whose date label does not parse as day/month/year is
\* skipped: no exception escapes the call, and the rows with parsable dates
\* are returned and written for every resolved fuel type, as if the bad rows
\* were not in the table.
C3_BadDateRowSkipped ==
    (AfterCall /\ \E i \in 1..Len(page.rows) : BadDateRow(page.rows[i])) =>
        LET clean == scrape_fuel_prices(CallYear, OilTypes,
                                        WithoutBadDateRows(page), NoFiles)
        IN  /\ raised = "none"
            /\ results = clean.results
            /\ \A t \in OilTypeSet : files[t][CallYear] = clean.files[t][CallYear]

\* C10: every price point that scrape_fuel_prices returns or writes to a
\* file is strictly greater than 0.
C10_ScrapedPricesPositive ==
    /\ \A t \in DOMAIN results :
        \A i \in 1..Len(results[t]) : RLt(Rat(0), results[t][i].price)
    /\ \A t \in OilTypeSet, y \in LoadYears :
        \A i \in 1..Len(files[t][y].rows) : RLt(Rat(0), files[t][y].rows[i].price)

-----------------------------------------------------------------------------
(* Claims about the main program, checked under SpecMain *)

Loaded == m_pc \in {"loaded", "done"}

Done == m_pc = "done"

\* C1: every series load_fuel_data returns has strictly increasing dates, so
\* at most one row per date, also when two yearly files hold the same date.
C1_SeriesDatesStrictlyIncreasing ==
    Loaded =>
        \A t \in DOMAIN all_fuel_data :
            \A i \in 1..(Len(all_fuel_data[t]) - 1) :
                all_fuel_data[t][i].date < all_fuel_data[t][i + 1].date

\* C4: for hybrid and EV, break-even years is positive infinity exactly when
\* the total annual savings is <= 0, and otherwise is the finite non-negative
\* quotient (depreciated price difference) / (total annual savings).
C4_Years(years, price_difference, total_annual_savings) ==
    /\ years = Inf <=> RLe(total_annual_savings, Rat(0))
    /\ RLt(Rat(0), total_annual_savings) =>
        /\ IsFinite(years)
        /\ RLe(Rat(0), years)
        /\ years = RDiv(price_difference, total_annual_savings)

C4_BreakEvenYears ==
    Done =>
        LET r == break_even_results
        IN  /\ r.costs.hybrid_price_difference =
                RSub(r.forecasts.hybrid_car_price, r.forecasts.gasoline_car_price)
            /\ r.costs.ev_price_difference =
                RSub(r.forecasts.ev_car_price, r.forecasts.gasoline_car_price)
            /\ C4_Years(r.break_even.hybrid_years, r.costs.hybrid_price_difference,
                        r.break_even.hybrid_annual_savings)
            /\ C4_Years(r.break_even.ev_years, r.costs.ev_price_difference,
                        r.break_even.ev_annual_savings)

\* the EV saves exactly nothing a year and never breaks even, while the
\* hybrid breaks even after a finite time
C4_Witness ==
    /\ Done
    /\ break_even_results.break_even.ev_annual_savings = Rat(0)
    /\ break_even_results.break_even.ev_years = Inf
    /\ RLt(Rat(0), break_even_results.break_even.hybrid_annual_savings)
    /\ IsFinite(break_even_results.break_even.hybrid_years)

\* C5: for hybrid and EV, the required monthly mileage is
\* ((price difference / years_to_own) - annual maintenance savings)
\* / per-km savings / 12 when the per-km savings is > 0, and positive
\* infinity when it is <= 0.
C5_Monthly(monthly, price_difference, maintenance_savings, savings_per_km) ==
    IF RLt(Rat(0), savings_per_km)
    THEN monthly =
            RDiv(RDiv(RSub(RDiv(price_difference, Rat(5)), Rat(maintenance_savings)),
                      savings_per_km),
                 Rat(12))
    ELSE monthly = Inf

C5_RequiredMonthlyMileage ==
    Done =>
        LET r == break_even_results
        IN  /\ r.break_even.years_to_own = 5
            /\ C5_Monthly(r.break_even.hybrid_monthly_km_needed,
                          r.costs.hybrid_price_difference, 10000 - 10000,
                          r.costs.hybrid_savings_per_km)
            /\ C5_Monthly(r.break_even.ev_monthly_km_needed,
                          r.costs.ev_price_difference, 10000 - 4000,
                          r.costs.ev_savings_per_km)

\* the EV costs more per km than the gasoline car and has no finite mileage,
\* while the hybrid has one
C5_Witness ==
    /\ Done
    /\ RLe(break_even_results.costs.ev_savings_per_km, Rat(0))
    /\ break_even_results.break_even.ev_monthly_km_needed = Inf
    /\ RLt(Rat(0), break_even_results.costs.hybrid_savings_per_km)
    /\ IsFinite(break_even_results.break_even.hybrid_monthly_km_needed)
    /\ RLt(Rat(0), break_even_results.break_even.hybrid_monthly_km_needed)

\* no observation of the fuel type: the mapping is empty, the fuel type is
\* not a key, or its series is empty
NoObservations(data, t) ==
    \/ DOMAIN data = {}
    \/ t \notin DOMAIN data
    \/ Len(data[t]) = 0

\* C6: forecast_fuel_price returns the default price 32.55 whenever the fuel
\* type has no observation.
C6_DefaultPriceWithoutObservations ==
    Done =>
        /\ NoObservations(all_fuel_data, "gasohol_95") =>
            break_even_results.forecasts.gasoline_fuel_price = <<651, 20>>
        /\ \A t \in DOMAIN all_fuel_data :
            NoObservations(all_fuel_data, t) =>
                break_even_results.forecasts.fuel_prices[t] = <<651, 20>>

\* the gasohol 95 series was loaded from a file without records, beside a
\* diesel series with an observation
C6_Witness ==
    /\ Done
    /\ "gasohol_95" \in DOMAIN all_fuel_data
    /\ Len(all_fuel_data["gasohol_95"]) = 0
    /\ "diesel" \in DOMAIN all_fuel_data
    /\ break_even_results.forecasts.gasoline_fuel_price = <<651, 20>>
    /\ break_even_results.forecasts.fuel_prices["gasohol_95"] = <<651, 20>>

\* C7: forecast_fuel_price on a series with exactly one observation returns
\* the price of that observation.
C7_SingleObservation ==
    Done =>
        \A t \in DOMAIN all_fuel_data :
            Len(all_fuel_data[t]) = 1 =>
                /\ break_even_results.forecasts.fuel_prices[t] = all_fuel_data[t][1].price
                /\ t = "gasohol_95" =>
                    break_even_results.forecasts.gasoline_fuel_price =
                        all_fuel_data[t][1].price

\* the gasohol 95 series holds the one price 6.30, which is the forecast
C7_Witness ==
    /\ Done
    /\ "gasohol_95" \in DOMAIN all_fuel_data
    /\ Len(all_fuel_data["gasohol_95"]) = 1
    /\ all_fuel_data["gasohol_95"][1].price = <<63, 10>>
    /\ break_even_results.forecasts.gasoline_fuel_price = <<63, 10>>

\* every price of the series is a + b * time
Affine(df, a, b) ==
    \A i \in 1..Len(df) : df[i].price = RAdd(a, RMul(b, Rat(df[i].time)))

\* the slopes of the lines through the first row and a later row, and the
\* slope 0.01 of the worked example
Slopes(df) ==
    { RDiv(RSub(df[i].price, df[1].price), Rat(df[i].time)) :
        i \in {j \in 1..Len(df) : df[j].time > 0} } \cup {Norm(1, 100)}

\* C8: for every series of at least two observations whose prices are
\* price = a + b * time, forecast_fuel_price returns a + b * (max time + 365).
C8_AffineSeriesExtrapolated ==
    Done =>
        \A t \in DOMAIN all_fuel_data :
            LET df == all_fuel_data[t]
            IN  Len(df) >= 2 =>
                    \A b \in Slopes(df) :
                        Affine(df, df[1].price, b) =>
                            break_even_results.forecasts.fuel_prices[t] =
                                RAdd(df[1].price, RMul(b, Rat(MaxTime(df) + 365)))

\* |x - target| <= tolerance
Near(x, target, tolerance) ==
    /\ RLe(RSub(x, target), tolerance)
    /\ RLe(RSub(target, x), tolerance)

\* the forecast is the default price 32.55 of the worked example
WorkedExample == Done /\ break_even_results.forecasts.gasoline_fuel_price = DefaultPrice

\* C9 as the spec states it: with the forecast 32.55 the hybrid saves about
\* 1.3875 THB/km and about 69,375 a year on fuel, nothing on maintenance,
\* and breaks even after about 4.11 years.
C9_WorkedExampleAsStated ==
    WorkedExample =>
        LET r == break_even_results
        IN  /\ Near(r.costs.hybrid_savings_per_km, Norm(13875, 10000), Norm(5, 100000))
            /\ Near(r.break_even.hybrid_annual_savings, Rat(69375), Norm(1, 2))
            /\ Near(r.break_even.hybrid_years, Norm(411, 100), Norm(5, 1000))

\* C9 amended: with the forecast 32.55 the hybrid saves 1.4105 THB/km and
\* 70,525 a year on fuel, nothing on maintenance (the total annual savings
\* is the fuel savings), and breaks even after 285000 / 70525 years, about
\* 4.04.
C9_WorkedExample ==
    WorkedExample =>
        LET r == break_even_results
        IN  /\ r.costs.hybrid_savings_per_km = Norm(14105, 10000)
            /\ r.costs.hybrid_savings_per_km =
                RSub(RDiv(DefaultPrice, Rat(12)), RDiv(DefaultPrice, Rat(25)))
            /\ r.break_even.hybrid_annual_savings = Rat(70525)
            /\ r.costs.hybrid_price_difference = Rat(285000)
            /\ r.break_even.hybrid_years = Norm(285000, 70525)
            /\ Near(r.break_even.hybrid_years, Norm(404, 100), Norm(5, 1000))

\* the main program ran without any gasohol 95 file
C9_Witness ==
    /\ WorkedExample
    /\ "gasohol_95" \notin DOMAIN all_fuel_data
    /\ break_even_results.break_even.hybrid_annual_savings = Rat(70525)

-----------------------------------------------------------------------------
(* C11: one point per (row, fuel type) with a usable cell *)

\* the body rows that carry a date cell, in page order
C11_DataRows == SelectSeq(page.rows, LAMBDA row : row.th # NoTh)

\* the row has a cell at column c whose text is non-empty, is not the
\* marker "-", and parses as a number
C11_Usable(row, c) ==
    /\ c >= 1
    /\ Len(row.tds) >= c
    /\ Strip(row.tds[c]) # ""
    /\ Strip(row.tds[c]) # "-"
    /\ Strip(row.tds[c]) \in Numeric

\* the points of column c: one per data row with a usable cell, in row order
C11_Points(c) ==
    LET usable == SelectSeq(C11_DataRows, LAMBDA row : C11_Usable(row, c))
    IN  [i \in 1..Len(usable) |->
            [date |-> Strip(usable[i].th), price |-> Float(Strip(usable[i].tds[c]))]]

\* C11: after a call on a page with a well-formed table, the points recorded
\* for every resolved fuel type are exactly those of the data rows that have a
\* cell at the type's column with a non-empty, non-marker, numeric text: a
\* short row, a "-", an empty cell or an unparsable text omits that one
\* (row, fuel type) point and nothing else.
C11_PointRecordedIffCellUsable ==
    (AfterCall /\ page.kind = "ok") =>
        \A t \in DOMAIN appended :
            appended[t] = C11_Points(price_index_of(Headers(page), t))

\* a call where a "-" and a short row each omit one point while the other
\* fuel type of the same row and the later row are recorded
C11_Witness ==
    /\ AfterCall
    /\ page.kind = "ok"
    /\ page.titles = <<"Gasohol 95 S EVO", "Hi Diesel S">>
    /\ page.rows = <<[th |-> "31/12/2020", tds |-> <<"-", "6.30">>],
                     [th |-> "01/01/2021", tds |-> <<"31.50">>]>>
    /\ appended["gasohol_95"] = <<[date |-> "01/01/2021", price |-> Float("31.50")]>>
    /\ appended["diesel"] = <<[date |-> "31/12/2020", price |-> Float("6.30")]>>

-----------------------------------------------------------------------------
(* C12: a failing call returns {} and no call touches another year's files *)

\* the labels of oil_type_index
C12_Labels == {oil_type_index[t] : t \in OilTypeSet}

\* the response makes the call fail: transport error, missing table,
\* malformed header, or a header that names no label
C12_Failing(p) ==
    \/ p.kind \in {"transport_error", "no_table", "no_thead", "short_thead",
                   "no_date_header"}
    \/ /\ p.kind = "ok"
       /\ \A i \in 1..Len(p.titles) : Strip(p.titles[i]) \notin C12_Labels

\* the step is one call of scrape_fuel_prices
C12_CallStep == s_pc = "run" /\ s_pc' \in {"called", "crashed"}

\* C12: in every run of calls for distinct years, a call on a failing response
\* returns the empty result, raises nothing and leaves every file as it was;
\* and every call, failing or not, changes only files of its own year, and
\* only those of fuel types for which it collected at least one point.
C12_FailingCallsLeaveOtherFilesAlone ==
    [][C12_CallStep =>
        /\ C12_Failing(page') =>
              /\ raised' = "none"
              /\ s_pc' = "called"
              /\ results' = <<>>
              /\ files' = files
        /\ \A t \in OilTypeSet, y \in LoadYears :
              files'[t][y] # files[t][y] =>
                  /\ y = ScrapeYears[year_idx]
                  /\ t \in DOMAIN appended'
                  /\ appended'[t] # <<>>]_vars

\* the call for the second year failed on a transport error after the call
\* for the first year had written a file, which is still there
C12_Witness ==
    /\ s_pc = "called"
    /\ year_idx = 2
    /\ page.kind = "transport_error"
    /\ raised = "none"
    /\ results = <<>>
    /\ files["diesel"][2020].exists
    /\ \A t \in OilTypeSet : ~files[t][2021].exists

-----------------------------------------------------------------------------
(* C13: the body cell read for a fuel type and the column of its header cell *)

\* the position, among all the <th> of the second header row, of the header
\* cell whose title is the fuel type's label: the table column it sits over
C13_ColumnOfLabel(t) ==
    CHOOSE i \in 1..Len(page.titles) :
        /\ Strip(page.titles[i]) = oil_type_index[t]
        /\ \A j \in 1..(i - 1) : Strip(page.titles[j]) # oil_type_index[t]

\* C13: after a call on a page with a well-formed table, whatever the layout
\* of the second header row, the points recorded for every resolved fuel type
\* are read from the body cells in the table column of the header cell that
\* carries the type's label.
C13_PriceFromLabelledColumn ==
    (AfterCall /\ page.kind = "ok") =>
        \A t \in DOMAIN appended :
            appended[t] = C11_Points(C13_ColumnOfLabel(t))

-----------------------------------------------------------------------------
(* C14: the break-even years and the required mileage, one against the other *)

\* the annual driving distances assumed in place of km_per_year
C14_Distances == {Rat(0), Rat(1000), Rat(km_per_year), Rat(100000)}

\* the break-even years of the code at the annual distance km
C14_YearsAt(price_difference, savings_per_km, maintenance_savings, km) ==
    break_even_years(price_difference,
                     annual_savings(savings_per_km, km, maintenance_savings))

\* substituting 12 x the required monthly mileage for the assumed distance
\* gives break-even years of exactly years_to_own
C14_Substitution(monthly, price_difference, savings_per_km, maintenance_savings) ==
    (RLt(Rat(0), savings_per_km) /\ IsFinite(monthly)) =>
        C14_YearsAt(price_difference, savings_per_km, maintenance_savings,
                    RMul(Rat(12), monthly)) = Rat(years_to_own)

\* the break-even years are the sentinel at every assumed distance
C14_NeverAtAnyDistance(price_difference, savings_per_km, maintenance_savings) ==
    \A km \in C14_Distances :
        C14_YearsAt(price_difference, savings_per_km, maintenance_savings, km) = Inf

\* the break-even years are the sentinel at exactly the assumed distances at
\* which the fuel loss is at least the maintenance savings
C14_NeverWhereLossOutweighs(price_difference, savings_per_km, maintenance_savings) ==
    \A km \in C14_Distances :
        C14_YearsAt(price_difference, savings_per_km, maintenance_savings, km) = Inf
            <=> RLe(maintenance_savings, RMul(RNeg(savings_per_km), km))

C14_HybridMaintenanceSavings ==
    Rat(gasoline_car_maintenance_annual - hybrid_car_maintenance_annual)

C14_EvMaintenanceSavings ==
    Rat(gasoline_car_maintenance_annual - ev_car_maintenance_annual)

\* C14 as stated: for the hybrid and the EV, the substitution gives exactly
\* years_to_own, and whenever the required monthly mileage is the infinity
\* sentinel the break-even years are the sentinel at every assumed distance.
C14_ConsistentAsStated ==
    Done =>
        LET r == break_even_results
        IN  /\ C14_Substitution(r.break_even.hybrid_monthly_km_needed,
                                r.costs.hybrid_price_difference,
                                r.costs.hybrid_savings_per_km,
                                C14_HybridMaintenanceSavings)
            /\ C14_Substitution(r.break_even.ev_monthly_km_needed,
                                r.costs.ev_price_difference,
                                r.costs.ev_savings_per_km,
                                C14_EvMaintenanceSavings)
            /\ r.break_even.hybrid_monthly_km_needed = Inf =>
                  C14_NeverAtAnyDistance(r.costs.hybrid_price_difference,
                                         r.costs.hybrid_savings_per_km,
                                         C14_HybridMaintenanceSavings)
            /\ r.break_even.ev_monthly_km_needed = Inf =>
                  C14_NeverAtAnyDistance(r.costs.ev_price_difference,
                                         r.costs.ev_savings_per_km,
                                         C14_EvMaintenanceSavings)

\* C14: for the hybrid and the EV, the substitution gives exactly
\* years_to_own; when the hybrid's required monthly mileage is the sentinel,
\* its break-even years are the sentinel at every assumed distance; when the
\* EV's is, its break-even years are the sentinel only at the distances at
\* which the fuel loss is at least the annual maintenance savings, and finite
\* at the shorter ones.
C14_Consistent ==
    Done =>
        LET r == break_even_results
        IN  /\ C14_Substitution(r.break_even.hybrid_monthly_km_needed,
                                r.costs.hybrid_price_difference,
                                r.costs.hybrid_savings_per_km,
                                C14_HybridMaintenanceSavings)
            /\ C14_Substitution(r.break_even.ev_monthly_km_needed,
                                r.costs.ev_price_difference,
                                r.costs.ev_savings_per_km,
                                C14_EvMaintenanceSavings)
            /\ r.break_even.hybrid_monthly_km_needed = Inf =>
                  C14_NeverAtAnyDistance(r.costs.hybrid_price_difference,
                                         r.costs.hybrid_savings_per_km,
                                         C14_HybridMaintenanceSavings)
            /\ r.break_even.ev_monthly_km_needed = Inf =>
                  /\ C14_NeverWhereLossOutweighs(r.costs.ev_price_difference,
                                                 r.costs.ev_savings_per_km,
                                                 C14_EvMaintenanceSavings)
                  /\ IsFinite(C14_YearsAt(r.costs.ev_price_difference,
                                          r.costs.ev_savings_per_km,
                                          C14_EvMaintenanceSavings, Rat(0)))

\* a result where the hybrid's substitution gives years_to_own while the EV's
\* required mileage is the sentinel and its break-even years are finite at
\* 1000 km a year and the sentinel at km_per_year
C14_Witness ==
    /\ Done
    /\ RLt(Rat(0), break_even_results.costs.hybrid_savings_per_km)
    /\ IsFinite(break_even_results.break_even.hybrid_monthly_km_needed)
    /\ C14_YearsAt(break_even_results.costs.hybrid_price_difference,
                   break_even_results.costs.hybrid_savings_per_km,
                   C14_HybridMaintenanceSavings,
                   RMul(Rat(12), break_even_results.break_even.hybrid_monthly_km_needed))
         = Rat(years_to_own)
    /\ break_even_results.break_even.ev_monthly_km_needed = Inf
    /\ IsFinite(C14_YearsAt(break_even_results.costs.ev_price_difference,
                            break_even_results.costs.ev_savings_per_km,
                            C14_EvMaintenanceSavings, Rat(1000)))
    /\ break_even_results.break_even.ev_years = Inf

=============================================================================
